---- MODULE Spec2Model ----
(***************************************************************************)
(* Bank-marketing classifier: feature engineering, the serving layer      *)
(* (app/main.py), artifact packaging/distribution (scripts/) and the       *)
(* training orchestrator (src/training/train.py).                          *)
(***************************************************************************)
EXTENDS Integers, Sequences, FiniteSets, TLC

VARIABLES
    \* ---- serving layer (app/main.py)
    sources,         \* what each candidate source holds on this host
    pc,              \* "init" | "loaded" | "failed": the startup handler's position
    candidates,      \* the candidate list _load_model built
    attempted,       \* the candidates the loop of _load_model visited, in order
    model_instance,  \* the process-wide model reference
    startup_error,   \* the HTTPException _load_model raised (status_code 0: none)
    request,         \* the last request received
    response,        \* the response to the last request
    \* ---- feature engineering (src/features)
    df,              \* the dataset handed to the training path
    df_after,        \* the caller's frame after engineer_features returned
    batch_out,       \* features returned by split_features_target
    single_out,      \* per row: the frame predict() engineered for that row alone
    \* ---- packaging / distribution (scripts/)
    model_dir,       \* MODEL_DIR/bank_marketing_model
    archive,         \* dist/bank_marketing_model.zip
    remote,          \* the archive served at the http(s) / wasbs URI
    target_dir,      \* --target-dir of setup_model
    target_before,   \* target_dir as the last setup_model call found it
    setup_result,    \* outcome of the last setup_model call
    package_result,  \* outcome of the last package_model call
    \* ---- training orchestrator (src/training/train.py)
    local_model,     \* the run whose pipeline MODEL_DIR/bank_marketing_model holds (0: none)
    registry,        \* versions registered under "bank_marketing_model", oldest first
    artifacts,       \* artifacts logged to the tracking service
    runs             \* one record per training invocation, oldest first

serveVars == <<sources, pc, candidates, attempted, model_instance, startup_error,
               request, response>>
featVars  == <<df, df_after, batch_out, single_out>>
setupVars == <<model_dir, archive, remote, target_dir, target_before, setup_result, package_result>>
trainVars == <<local_model, registry, artifacts, runs>>
vars == <<serveVars, featVars, setupVars, trainVars>>

None == "None"

-----------------------------------------------------------------------------
(* Bounds *)
MaxRows    == 2   \* largest dataset
ProbScale  == 4   \* probabilities are k / ProbScale, k \in 0..ProbScale
MaxContent == 2   \* distinct file contents 1..MaxContent (0: the file is absent)
MaxRuns    == 3   \* training invocations

-----------------------------------------------------------------------------
(* Feature engineering: src/features/engineering.py *)

\* numpy.log1p on the values the model uses, in thousandths; -inf at -1, nan below.
Ln1pMilli ==
    (0 :> 0) @@ (1 :> 693) @@ (2 :> 1099) @@ (3 :> 1386) @@ (4 :> 1609) @@ (120 :> 4796)

log1p(x) ==
    IF x < -1 THEN [kind |-> "nan", milli |-> 0]
    ELSE IF x = -1 THEN [kind |-> "-inf", milli |-> 0]
    ELSE [kind |-> "num", milli |-> Ln1pMilli[x]]

CampaignVals == {-2, -1, 2}
Rows == [balance : {-5, 100}, campaign : CampaignVals, duration : {0, 120}, previous : {0, 3}]

EngineeredCols == {"is_balance_positive", "log_campaign", "log_duration", "has_previous_contact"}

engineer_row(r) ==
    [balance |-> r.balance, campaign |-> r.campaign, duration |-> r.duration,
     previous |-> r.previous,
     is_balance_positive  |-> IF r.balance > 0 THEN 1 ELSE 0,
     log_campaign         |-> log1p(r.campaign),
     log_duration         |-> log1p(r.duration),
     has_previous_contact |-> IF r.previous > 0 THEN 1 ELSE 0]

\* A bug that derives the columns from frame-level values (the first row's) instead of per row.
engineer_features_frame_level(frame) ==
    [input  |-> frame,
     output |-> [i \in DOMAIN frame |->
                    [engineer_row(frame[i]) EXCEPT
                        !.log_campaign = log1p(frame[1].campaign)]]]

\* engineer_features(df): the caller's frame after the call, and the frame returned.
\* The columns are added to a copy, column-wise: row i of the result depends on row i alone.
engineer_features(frame) ==
    [input  |-> frame,
     output |-> [i \in DOMAIN frame |-> engineer_row(frame[i])]]

Derived(er) == [c \in EngineeredCols |-> er[c]]

TARGET_COL == "y"
LabelledRows ==
    [balance : {-5, 100}, campaign : CampaignVals, duration : {0, 120}, previous : {0, 3},
     y : {"yes", "no"}]

\* df.drop(columns=[TARGET_COL]) returns a new frame without the label.
drop_target(frame) ==
    [i \in DOMAIN frame |->
        [balance |-> frame[i].balance, campaign |-> frame[i].campaign,
         duration |-> frame[i].duration, previous |-> frame[i].previous]]

\* preprocessing.py 70-74
split_features_target(frame) ==
    LET e == engineer_features(drop_target(frame))
    IN  [features |-> e.output,
         target   |-> [i \in DOMAIN frame |-> IF frame[i].y = "yes" THEN 1 ELSE 0],
         arg_after |-> e.input]

InitFeat ==
    /\ df \in UNION {[1 .. n -> LabelledRows] : n \in 1 .. MaxRows}
    /\ df_after = <<>>
    /\ batch_out = <<>>      \* <<>>: split_features_target has not run
    /\ single_out = [i |-> 0, arg |-> <<>>, arg_after |-> <<>>, frame |-> <<>>]

\* Training path: train.py 89 calls split_features_target on the whole dataset.
EngineerBatch ==
    /\ batch_out = <<>>
    /\ LET r == split_features_target(df)
       IN  /\ batch_out' = r.features
           /\ df_after' = r.arg_after
    /\ UNCHANGED <<df, single_out>>

\* Serving path: main.py 110-111 builds a one-row frame from the payload and engineers it.
EngineerSingle(i) ==
    /\ LET data_frame == <<drop_target(df)[i]>>
           e == engineer_features(data_frame)
       IN  single_out' = [i |-> i, arg |-> data_frame, arg_after |-> e.input, frame |-> e.output]
    /\ UNCHANGED <<df, df_after, batch_out>>

-----------------------------------------------------------------------------
(* Serving layer: app/main.py *)

MODEL_LOCAL_PATH == "MODEL_LOCAL_PATH"
MODEL_URI        == "MODEL_URI"
DEFAULT_NESTED   == "model/bank_marketing_model"
DEFAULT_MODEL    == "model"
DEFAULT_MODELS   == "MODEL_DIR/bank_marketing_model"

AllSources == <<MODEL_LOCAL_PATH, MODEL_URI, DEFAULT_NESTED, DEFAULT_MODEL, DEFAULT_MODELS>>
SourceSet  == {AllSources[i] : i \in DOMAIN AllSources}

\* A path is missing, a directory or a plain file; mlflow.sklearn.load_model on it
\* returns a model (ok) or raises (bad). A URI loads or raises.
PathStates == {"missing", "dir_ok", "dir_bad", "file_ok", "file_bad"}
UriStates  == {"uri_ok", "uri_bad"}

is_dir(src)  == sources[src] \in {"dir_ok", "dir_bad"}
exists(src)  == sources[src] \in {"dir_ok", "dir_bad", "file_ok", "file_bad"}
LoadOk(src)  == sources[src] \in {"dir_ok", "file_ok", "uri_ok"}

\* The model a source holds is named after the source; the exception a failed load raises too.
load_model(src) ==
    IF LoadOk(src) THEN [raised |-> FALSE, value |-> src]
    ELSE [raised |-> TRUE, value |-> src]

\* A bug that consults MODEL_URI before MODEL_LOCAL_PATH.
CandidatesUriFirst ==
    (IF sources[MODEL_URI] # "unset" THEN <<[kind |-> "uri", src |-> MODEL_URI]>> ELSE <<>>)
    \o (IF sources[MODEL_LOCAL_PATH] # "unset"
        THEN <<[kind |-> "path", src |-> MODEL_LOCAL_PATH]>> ELSE <<>>)
    \o <<[kind |-> "path", src |-> DEFAULT_NESTED],
         [kind |-> "path", src |-> DEFAULT_MODEL],
         [kind |-> "path", src |-> DEFAULT_MODELS]>>

\* main.py 43-59: the candidate list.
Candidates ==
    (IF sources[MODEL_LOCAL_PATH] # "unset"
     THEN <<[kind |-> "path", src |-> MODEL_LOCAL_PATH]>> ELSE <<>>)
    \o (IF sources[MODEL_URI] # "unset" THEN <<[kind |-> "uri", src |-> MODEL_URI]>> ELSE <<>>)
    \o <<[kind |-> "path", src |-> DEFAULT_NESTED],
         [kind |-> "path", src |-> DEFAULT_MODEL],
         [kind |-> "path", src |-> DEFAULT_MODELS]>>

\* main.py 63-73: the body of the loop for one candidate:
\* "return" a model, "raise" (caught: last_exception is set), or fall through ("skip").
TryCandidate(c) ==
    IF c.kind = "path"
    THEN IF is_dir(c.src) \/ exists(c.src)
         THEN LET r == load_model(c.src)
              IN  IF r.raised THEN [out |-> "raise", value |-> r.value]
                  ELSE [out |-> "return", value |-> r.value]
         ELSE [out |-> "skip", value |-> None]
    ELSE LET r == load_model(c.src)
         IN  IF r.raised THEN [out |-> "raise", value |-> r.value]
             ELSE [out |-> "return", value |-> r.value]

\* A bug that gives up at the first candidate that raises.
RECURSIVE LoadFromStopAtFirstError(_, _, _, _)
LoadFromStopAtFirstError(cands, i, last_exception, seen) ==
    IF i > Len(cands)
    THEN [status |-> 500, model |-> None, last_exception |-> last_exception, attempted |-> seen]
    ELSE LET t == TryCandidate(cands[i])
             seen2 == Append(seen, cands[i].src)
         IN  CASE t.out = "return" ->
                    [status |-> 0, model |-> t.value, last_exception |-> last_exception,
                     attempted |-> seen2]
               [] t.out = "raise" ->
                    [status |-> 500, model |-> None, last_exception |-> t.value,
                     attempted |-> seen2]
               [] OTHER -> LoadFromStopAtFirstError(cands, i + 1, last_exception, seen2)

\* main.py 61-77: the loop over the candidates from position i, then the raise.
RECURSIVE LoadFrom(_, _, _, _)
LoadFrom(cands, i, last_exception, seen) ==
    IF i > Len(cands)
    THEN [status |-> 500, model |-> None, last_exception |-> last_exception, attempted |-> seen]
    ELSE LET t == TryCandidate(cands[i])
             seen2 == Append(seen, cands[i].src)
         IN  CASE t.out = "return" ->
                    [status |-> 0, model |-> t.value, last_exception |-> last_exception,
                     attempted |-> seen2]
               [] t.out = "raise" -> LoadFrom(cands, i + 1, t.value, seen2)
               [] OTHER -> LoadFrom(cands, i + 1, last_exception, seen2)

\* main.py 42-77
LoadModelResult == LoadFrom(Candidates, 1, None, <<>>)

\* The fitted pipeline is opaque: one deterministic positive-class probability per
\* (model, engineered row), in units of 1 / ProbScale.
ModelBias(m) == CHOOSE i \in DOMAIN AllSources : AllSources[i] = m

PositiveProba(m, er) ==
    (ModelBias(m) + er.is_balance_positive + 2 * er.has_previous_contact
        + (er.log_duration.milli \div 1000) + (er.log_campaign.milli \div 1000))
    % (ProbScale + 1)

\* model.predict_proba(frame): one <<P(class 0), P(class 1)>> per row.
predict_proba(m, frame) ==
    [i \in DOMAIN frame |->
        <<ProbScale - PositiveProba(m, frame[i]), PositiveProba(m, frame[i])>>]

\* A bug that answers with a default prediction when no model is loaded.
PredictResponseSilentDefault(payload) ==
    IF model_instance = None
    THEN [endpoint |-> "predict", status |-> 200, probability |-> 0, prediction |-> 0]
    ELSE LET data_frame == engineer_features(<<payload>>).output
             prediction_proba == predict_proba(model_instance, data_frame)[1][2]
         IN  [endpoint |-> "predict", status |-> 200,
              probability |-> prediction_proba,
              prediction |-> IF 2 * prediction_proba >= ProbScale THEN 1 ELSE 0]

\* A bug that thresholds with > instead of >=.
PredictResponseStrict(payload) ==
    IF model_instance = None
    THEN [endpoint |-> "predict", status |-> 500, detail |-> "Model not available."]
    ELSE LET data_frame == engineer_features(<<payload>>).output
             prediction_proba == predict_proba(model_instance, data_frame)[1][2]
         IN  [endpoint |-> "predict", status |-> 200,
              probability |-> prediction_proba,
              prediction |-> IF 2 * prediction_proba > ProbScale THEN 1 ELSE 0]

\* main.py 106-117
PredictResponse(payload) ==
    IF model_instance = None
    THEN [endpoint |-> "predict", status |-> 500, detail |-> "Model not available."]
    ELSE LET data_frame == engineer_features(<<payload>>).output
             prediction_proba == predict_proba(model_instance, data_frame)[1][2]
         IN  [endpoint |-> "predict", status |-> 200,
              probability |-> prediction_proba,
              prediction |-> IF 2 * prediction_proba >= ProbScale THEN 1 ELSE 0]

\* A bug that lets a failed reload at request time clear the reference.
ModelAfterRequestReset == None

\* No request handler assigns model_instance (main.py 96-117 hold no global statement).
ModelAfterRequest == model_instance

InitServe ==
    /\ sources \in [SourceSet -> PathStates \cup UriStates \cup {"unset"}]
    /\ sources[MODEL_LOCAL_PATH] \in PathStates \cup {"unset"}
    /\ sources[MODEL_URI] \in UriStates \cup {"unset"}
    /\ \A s \in {DEFAULT_NESTED, DEFAULT_MODEL, DEFAULT_MODELS} : sources[s] \in PathStates
    /\ pc = "init"
    /\ candidates = <<>>
    /\ attempted = <<>>
    /\ model_instance = None          \* main.py 87
    /\ startup_error = [status_code |-> 0, last_exception |-> None]
    /\ request = [endpoint |-> "none"]
    /\ response = [endpoint |-> "none", status |-> 0]

\* main.py 90-93: the startup handler, run once by the framework.
load_model_on_startup ==
    /\ pc = "init"
    /\ LET r == LoadModelResult
       IN  /\ candidates' = Candidates
           /\ attempted' = r.attempted
           /\ IF r.status = 0
              THEN /\ model_instance' = r.model
                   /\ startup_error' = startup_error
                   /\ pc' = "loaded"
              ELSE /\ model_instance' = model_instance
                   /\ startup_error' = [status_code |-> 500, last_exception |-> r.last_exception]
                   /\ pc' = "failed"
    /\ UNCHANGED <<sources, request, response>>

\* main.py 96-98 with 80-84
index ==
    /\ request' = [endpoint |-> "index"]
    /\ \E template_exists \in BOOLEAN :
          response' = [endpoint |-> "index", status |-> 200,
                       body |-> IF template_exists THEN "index.html" ELSE "Index page missing."]
    /\ model_instance' = ModelAfterRequest
    /\ UNCHANGED <<sources, pc, candidates, attempted, startup_error>>

\* main.py 101-103 with 119-123
app_page ==
    /\ request' = [endpoint |-> "app"]
    /\ \E template_exists \in BOOLEAN :
          response' = [endpoint |-> "app", status |-> 200,
                       body |-> IF template_exists THEN "dashboard.html"
                                ELSE "Dashboard page missing."]
    /\ model_instance' = ModelAfterRequest
    /\ UNCHANGED <<sources, pc, candidates, attempted, startup_error>>

\* main.py 106-117, for a payload the framework validated
predict(payload) ==
    /\ request' = [endpoint |-> "predict", payload |-> payload]
    /\ response' = PredictResponse(payload)
    /\ model_instance' = ModelAfterRequest
    /\ UNCHANGED <<sources, pc, candidates, attempted, startup_error>>

-----------------------------------------------------------------------------
(* Packaging and distribution: scripts/package_model.py, scripts/setup_model.py *)

FileNames == {"MLmodel", "model.pkl"}
Trees     == [FileNames -> 0 .. MaxContent]
EmptyTree == [f \in FileNames |-> 0]
Dirs      == {[exists |-> TRUE, files |-> t] : t \in Trees}
                \cup {[exists |-> FALSE, files |-> EmptyTree]}

\* shutil.make_archive(..., "zip", root_dir): one member per file of the directory.
make_archive(files) == {<<f, files[f]>> : f \in {g \in FileNames : files[g] # 0}}

\* The tree a zip archive holds.
ZipTree(members) ==
    [f \in FileNames |->
        IF \E m \in members : m[1] = f THEN (CHOOSE m \in members : m[1] = f)[2] ELSE 0]

\* ZipFile.extractall(target_dir): writes every member, creating or overwriting its file;
\* files of the target that the archive does not name are left in place.
extractall(members, target) ==
    [exists |-> TRUE,
     files  |-> [f \in FileNames |->
                    IF \E m \in members : m[1] = f
                    THEN (CHOOSE m \in members : m[1] = f)[2]
                    ELSE target.files[f]]]

\* setup_model.py 42-45
copy_directory(source, target) == [exists |-> TRUE, files |-> source.files]

UriKinds == {"", "http", "wasbs", "dir", "zip", "other"}

InitSetup ==
    /\ model_dir \in Dirs
    /\ target_dir \in Dirs
    /\ remote \in {make_archive(t) : t \in {u \in Trees : u["MLmodel"] # 0}}
    /\ archive = [exists |-> FALSE, members |-> {}]
    /\ target_before = [exists |-> FALSE, files |-> EmptyTree]
    /\ setup_result = [kind |-> "", outcome |-> "none", fetched |-> EmptyTree]
    /\ package_result = "none"

\* package_model.py 20-29
package_main ==
    /\ IF ~model_dir.exists
       THEN /\ package_result' = "FileNotFoundError"
            /\ archive' = archive
       ELSE /\ archive' = [exists |-> TRUE, members |-> make_archive(model_dir.files)]
            /\ package_result' = "ok"
    /\ UNCHANGED <<model_dir, remote, target_dir, target_before, setup_result>>

\* setup_model.py 60-88. kind: how the URI reads ("": none given; "dir": the path of the
\* persisted model directory; "zip": the path of the packaged archive; "other": any other
\* local path); download_ok: whether the HTTP / blob download succeeds.
setup_main(kind, download_ok) ==
    /\ target_before' = target_dir
    /\ CASE kind = "" ->
              /\ setup_result' = [kind |-> kind, outcome |-> "skipped", fetched |-> EmptyTree]
              /\ target_dir' = target_dir
         [] kind \in {"http", "wasbs"} ->
              IF download_ok
              THEN /\ target_dir' = extractall(remote, target_dir)
                   /\ setup_result' = [kind |-> kind, outcome |-> "ok",
                                       fetched |-> ZipTree(remote)]
              ELSE /\ target_dir' = target_dir
                   /\ setup_result' = [kind |-> kind, outcome |-> "error",
                                       fetched |-> EmptyTree]
         [] kind = "dir" ->
              IF model_dir.exists
              THEN /\ target_dir' = copy_directory(model_dir, target_dir)
                   /\ setup_result' = [kind |-> kind, outcome |-> "ok",
                                       fetched |-> model_dir.files]
              ELSE /\ target_dir' = target_dir
                   /\ setup_result' = [kind |-> kind, outcome |-> "error",
                                       fetched |-> EmptyTree]
         [] kind = "zip" ->
              IF archive.exists
              THEN /\ target_dir' = extractall(archive.members, target_dir)
                   /\ setup_result' = [kind |-> kind, outcome |-> "ok",
                                       fetched |-> ZipTree(archive.members)]
              ELSE /\ target_dir' = target_dir
                   /\ setup_result' = [kind |-> kind, outcome |-> "error",
                                       fetched |-> EmptyTree]
         [] OTHER ->
              /\ target_dir' = target_dir
              /\ setup_result' = [kind |-> kind, outcome |-> "error", fetched |-> EmptyTree]
    /\ UNCHANGED <<model_dir, archive, remote, package_result>>

-----------------------------------------------------------------------------
(* Training orchestrator: src/training/train.py *)

\* The steps of train_and_log inside the tracking run, in program order (train.py 96-137).
Steps == <<"grid_search", "evaluate", "log_params_metrics", "log_model",
           "confusion_matrix", "evaluation_csv", "save_model">>

StepIndex(name) == CHOOSE k \in DOMAIN Steps : Steps[k] = name

\* mlflow.sklearn.save_model refuses a path that exists and is not empty (it raises
\* MlflowException "Path ... already exists and is not empty"); it never overwrites.
save_model_raises == local_model # 0

\* The step at which run stops, given the step at which the environment fails
\* (0: nowhere); 0 when the run completes.
FailingStep(injected) ==
    IF injected # 0 THEN injected
    ELSE IF save_model_raises THEN StepIndex("save_model")
    ELSE 0

Reached(step, failing) == failing = 0 \/ StepIndex(step) < failing

InitTrain ==
    /\ local_model = 0
    /\ registry = <<>>
    /\ artifacts = {}
    /\ runs = <<>>

\* train.py 80-139: one training invocation; injected is the step the environment makes fail.
train_and_log(injected) ==
    /\ Len(runs) < MaxRuns
    /\ LET run == Len(runs) + 1
           failing == FailingStep(injected)
       IN  /\ registry' = IF Reached("log_model", failing) THEN Append(registry, run)
                          ELSE registry
           /\ artifacts' = artifacts
                \cup {<<run, a>> : a \in {s \in {"log_params_metrics", "confusion_matrix",
                                                  "evaluation_csv"} : Reached(s, failing)}}
           /\ local_model' = IF Reached("save_model", failing) THEN run ELSE local_model
           /\ runs' = Append(runs, [id |-> run, injected |-> injected,
                                    outcome |-> IF failing = 0 THEN "completed" ELSE "aborted",
                                    failed_step |-> failing,
                                    local_before |-> local_model])

-----------------------------------------------------------------------------
(* Specifications: one per component; the other components stay idle. *)

IdleServe ==
    /\ sources = [s \in SourceSet |-> IF s \in {MODEL_LOCAL_PATH, MODEL_URI}
                                      THEN "unset" ELSE "missing"]
    /\ pc = "init"
    /\ candidates = <<>>
    /\ attempted = <<>>
    /\ model_instance = None
    /\ startup_error = [status_code |-> 0, last_exception |-> None]
    /\ request = [endpoint |-> "none"]
    /\ response = [endpoint |-> "none", status |-> 0]

IdleFeat ==
    /\ df = <<>>
    /\ df_after = <<>>
    /\ batch_out = <<>>
    /\ single_out = [i |-> 0, arg |-> <<>>, arg_after |-> <<>>, frame |-> <<>>]

IdleSetup ==
    /\ model_dir = [exists |-> FALSE, files |-> EmptyTree]
    /\ target_dir = [exists |-> FALSE, files |-> EmptyTree]
    /\ remote = {}
    /\ archive = [exists |-> FALSE, members |-> {}]
    /\ target_before = [exists |-> FALSE, files |-> EmptyTree]
    /\ setup_result = [kind |-> "", outcome |-> "none", fetched |-> EmptyTree]
    /\ package_result = "none"

ServeInit == InitServe /\ IdleFeat /\ IdleSetup /\ InitTrain
FeatInit  == IdleServe /\ InitFeat /\ IdleSetup /\ InitTrain
SetupInit == IdleServe /\ IdleFeat /\ InitSetup /\ InitTrain
TrainInit == IdleServe /\ IdleFeat /\ IdleSetup /\ InitTrain

ServeNext ==
    \/ load_model_on_startup /\ UNCHANGED <<featVars, setupVars, trainVars>>
    \/ index /\ UNCHANGED <<featVars, setupVars, trainVars>>
    \/ app_page /\ UNCHANGED <<featVars, setupVars, trainVars>>
    \/ \E payload \in Rows : predict(payload) /\ UNCHANGED <<featVars, setupVars, trainVars>>

FeatNext ==
    \/ EngineerBatch /\ UNCHANGED <<serveVars, setupVars, trainVars>>
    \/ \E i \in DOMAIN df : EngineerSingle(i) /\ UNCHANGED <<serveVars, setupVars, trainVars>>

SetupNext ==
    \/ package_main /\ UNCHANGED <<serveVars, featVars, trainVars>>
    \/ \E kind \in UriKinds, download_ok \in BOOLEAN :
          setup_main(kind, download_ok) /\ UNCHANGED <<serveVars, featVars, trainVars>>

TrainNext ==
    \E injected \in 0 .. Len(Steps) :
        train_and_log(injected) /\ UNCHANGED <<serveVars, featVars, setupVars>>

SpecServe == ServeInit /\ [][ServeNext]_vars
SpecFeat  == FeatInit /\ [][FeatNext]_vars
SpecSetup == SetupInit /\ [][SetupNext]_vars
SpecTrain == TrainInit /\ [][TrainNext]_vars

-----------------------------------------------------------------------------
(* Claims about the serving layer, checked under SpecServe *)

\* The documented order of the sources, restricted to those that are configured.
ExpectedOrder ==
    SelectSeq(AllSources,
              LAMBDA s : s \notin {MODEL_LOCAL_PATH, MODEL_URI} \/ sources[s] # "unset")

Raises(s) == sources[s] \in {"dir_bad", "file_bad", "uri_bad"}

Min(S) == CHOOSE x \in S : \A y \in S : x <= y
Max(S) == CHOOSE x \in S : \A y \in S : x >= y

\* C1: after startup the candidate list is [MODEL_LOCAL_PATH if set, MODEL_URI if set,
\* model/bank_marketing_model, model, MODEL_DIR/bank_marketing_model]; the loaded model is
\* the one of the first candidate in that order that loads, and no later candidate is tried.
C1_FirstLoadableCandidateWins ==
    pc # "init" =>
        /\ [i \in DOMAIN candidates |-> candidates[i].src] = ExpectedOrder
        /\ LET ok == {i \in DOMAIN ExpectedOrder : LoadOk(ExpectedOrder[i])}
           IN  IF ok = {}
               THEN model_instance = None /\ attempted = ExpectedOrder
               ELSE /\ model_instance = ExpectedOrder[Min(ok)]
                    /\ attempted = SubSeq(ExpectedOrder, 1, Min(ok))

\* Both overrides are set, the first ones fail, and a default loads although a later one would too.
C1_Witness ==
    /\ pc = "loaded"
    /\ sources[MODEL_LOCAL_PATH] = "dir_bad"
    /\ sources[MODEL_URI] = "uri_bad"
    /\ sources[DEFAULT_NESTED] = "missing"
    /\ sources[DEFAULT_MODELS] = "dir_ok"
    /\ model_instance = DEFAULT_MODEL
    /\ Len(attempted) = 4

\* A step that leaves pc alone and ends with a predict request on record is a step of the
\* predict handler: the startup handler changes pc, the page handlers record their own request.

\* C2: a POST /predict handled while model_instance is absent answers 500 and carries no
\* probability or prediction; a 200 prediction response is produced only when a model is loaded.
C2_UnloadedPredictIs500 ==
    [][request'.endpoint = "predict" /\ pc' = pc =>
          /\ response'.endpoint = "predict"
          /\ model_instance = None =>
                /\ response'.status = 500
                /\ DOMAIN response' \cap {"probability", "prediction"} = {}
          /\ response'.status = 200 => model_instance # None]_vars

\* A predict request was answered 500 after startup failed, the model reference absent.
C2_Witness ==
    /\ pc = "failed"
    /\ model_instance = None
    /\ response.endpoint = "predict"
    /\ response.status = 500

\* C3 as stated: when every candidate fails, the service stays Unloaded and the error
\* surfaces the failure of a candidate, the last one that failed. Read in the code's favour
\* (a failure is a load that raised): the error names a candidate that raised, and no later
\* candidate raised.
C3_SurfacesLastFailedCandidate ==
    pc = "failed" =>
        /\ model_instance = None
        /\ startup_error.status_code = 500
        /\ \E i \in DOMAIN attempted :
              /\ Raises(attempted[i])
              /\ startup_error.last_exception = attempted[i]
              /\ \A j \in DOMAIN attempted : j > i => ~Raises(attempted[j])

\* C3 amended: a candidate that fails never stops the search (startup fails only when no
\* candidate loads, every candidate having been visited); then the service stays Unloaded and
\* the 500 error carries the exception of the last candidate whose load RAISED, or None
\* when none raised: a path that does not exist is skipped without recording an error.
C3_SurfacesLastRaisedException ==
    pc = "failed" =>
        /\ model_instance = None
        /\ attempted = ExpectedOrder
        /\ \A i \in DOMAIN ExpectedOrder : ~LoadOk(ExpectedOrder[i])
        /\ startup_error.status_code = 500
        /\ LET raisers == {i \in DOMAIN ExpectedOrder : Raises(ExpectedOrder[i])}
           IN  startup_error.last_exception =
                   IF raisers = {} THEN None ELSE ExpectedOrder[Max(raisers)]

\* Two candidates raised, the later candidates are missing paths: the URI's error is surfaced.
C3_Witness ==
    /\ pc = "failed"
    /\ sources[MODEL_LOCAL_PATH] = "dir_bad"
    /\ sources[MODEL_URI] = "uri_bad"
    /\ sources[DEFAULT_MODELS] = "missing"
    /\ startup_error.last_exception = MODEL_URI
    /\ Len(attempted) = 5

\* C4: the model reference changes only in the startup handler's step, from absent to a
\* model, and that step happens at most once; no request changes it, and once Loaded the
\* service stays Loaded with the same model.
C4_ModelReferenceWrittenOnce ==
    [][/\ model_instance' # model_instance =>
              (pc = "init" /\ pc' = "loaded" /\ model_instance = None)
       /\ pc # "init" => pc' = pc
       /\ pc = "loaded" => model_instance # None]_vars

\* A prediction was served by a loaded model.
C4_Witness ==
    /\ pc = "loaded"
    /\ model_instance # None
    /\ response.endpoint = "predict"
    /\ response.status = 200

\* C5: a successful POST /predict returns the pipeline's positive-class probability for the
\* feature-engineered record, and prediction 1 exactly when that probability is >= 0.5, else 0.
C5_PredictionIsThresholdedProbability ==
    [][(request'.endpoint = "predict" /\ pc' = pc /\ response'.status = 200) =>
          /\ response'.probability =
                 PositiveProba(model_instance, engineer_row(request'.payload))
          /\ response'.prediction \in {0, 1}
          /\ response'.prediction = 1 <=> 2 * response'.probability >= ProbScale]_vars

\* A prediction whose probability is exactly one half, labelled 1.
C5_Witness ==
    /\ response.endpoint = "predict"
    /\ response.status = 200
    /\ 2 * response.probability = ProbScale
    /\ response.prediction = 1

-----------------------------------------------------------------------------
(* Claims about packaging and distribution, checked under SpecSetup *)

\* C6: when setup_model is given a URI and succeeds, the target directory holds exactly the
\* fetched model's contents, whatever it held before and whatever the kind of source.
C6_TargetHoldsExactlyFetched ==
    setup_result.outcome = "ok" =>
        /\ target_dir.exists
        /\ target_dir.files = setup_result.fetched

\* C7: unpacking with setup_model the zip that package_model made of the model directory
\* yields a target directory equal to the model directory, file for file.
C7_PackageThenSetupRoundTrip ==
    (setup_result.kind = "zip" /\ setup_result.outcome = "ok" /\ model_dir.files["MLmodel"] # 0) =>
        /\ target_dir.exists
        /\ target_dir.files = model_dir.files

-----------------------------------------------------------------------------
(* Claims about training, checked under SpecTrain *)

\* C8: every training invocation that the environment does not make fail completes, and
\* afterwards the local model directory holds the pipeline of the most recent run,
\* whether or not a model was persisted there before.
C8_EveryRunPersistsItsPipeline ==
    /\ \A i \in DOMAIN runs : runs[i].injected = 0 => runs[i].outcome = "completed"
    /\ (runs # <<>> /\ runs[Len(runs)].injected = 0) => local_model = Len(runs)

\* C10: a run that aborts leaves the local model directory as it was before the run, and
\* no model of that run is registered.
C10_AbortedRunLeavesNoArtifact ==
    \A i \in DOMAIN runs :
        runs[i].outcome = "aborted" =>
            /\ local_model # i
            /\ i = Len(runs) => local_model = runs[i].local_before
            /\ \A k \in DOMAIN registry : registry[k] # i

-----------------------------------------------------------------------------
(* Claims about feature engineering, checked under SpecFeat *)

\* C9: for every row, the four derived columns computed on the one-row frame (serving)
\* equal those computed for that row within the whole dataset (training), and
\* engineer_features leaves the frame it was given unmodified.
C9_RowIndependentEngineering ==
    /\ (batch_out # <<>> /\ single_out.i # 0) =>
           Derived(single_out.frame[1]) = Derived(batch_out[single_out.i])
    /\ batch_out # <<>> => (df_after = drop_target(df) /\ Len(batch_out) = Len(df))
    /\ single_out.i # 0 => single_out.arg_after = single_out.arg

\* The second row of a dataset whose rows differ in every raw column, engineered both ways.
C9_Witness ==
    /\ Len(df) >= 2
    /\ batch_out # <<>>
    /\ single_out.i = 2
    /\ df[1].campaign # df[2].campaign
    /\ df[1].balance # df[2].balance
    /\ df[1].duration # df[2].duration
    /\ df[1].previous # df[2].previous

====
